---- MODULE Spec2Model ----
(***************************************************************************)
(* Model of backup_exec_api.py: the /search endpoint (http_search), the    *)
(* core search_catalog, the PowerShell script built by                     *)
(* _build_powershell_script and the way powershell.exe reads that script.  *)
(*                                                                         *)
(* Text is modelled as a sequence of tokens (one-character strings for     *)
(* paths and agent names, lexemes for process output), so that escaping,   *)
(* stripping, the search for the first bracket and JSON parsing are        *)
(* computed and not assumed.                                               *)
(*                                                                         *)
(* Two specifications:                                                     *)
(*   Spec      the deployed program: powershell.exe (or pwsh) runs the     *)
(*             script that _build_powershell_script returned;              *)
(*   SpecStub  http_search/search_catalog driven with _run_powershell      *)
(*             replaced by a stub that returns any (code, stdout, stderr), *)
(*             the way a unit test drives the Python post-processing.      *)
(***************************************************************************)
EXTENDS Integers, Sequences, FiniteSets, TLC

VARIABLES
    req,        \* the HTTP request: query parameters path, agent, recurse, isdir
    pc,         \* position of the request handler
    args,       \* arguments http_search passes to search_catalog
    ps_script,  \* the script text returned by _build_powershell_script
    proc,       \* what _run_powershell returned: used binary, code, stdout, stderr
    exc,        \* the exception propagating out of the handler, or "none"
    result,     \* the dict search_catalog returned
    resp,       \* the HTTP response
    builds,     \* calls of _build_powershell_script in this request
    runs,       \* calls of _run_powershell in this request
    spawns      \* processes that subprocess.run actually started

vars == <<req, pc, args, ps_script, proc, exc, result, resp, builds, runs, spawns>>

-----------------------------------------------------------------------------
(* Bounds of the model.                                                    *)

\* exit codes range over 0..MaxExitCode
MaxExitCode == 2
\* longest non-JSON preamble (in tokens) put before a document by the stub
MaxPreamble == 1
\* longest results list of a stub document
MaxEntries == 2

-----------------------------------------------------------------------------
(* Optional[str]: None, or a string (a sequence of tokens).                *)

None == [some |-> FALSE, s |-> <<>>]

Some(s) == [some |-> TRUE, s |-> s]

\* Python truthiness of an Optional[str]: None and "" are falsy
Truthy(o) == o.some /\ o.s # <<>>

\* characters str.strip() removes
Whitespace == {" ", "\n"}

RECURSIVE lstrip(_)
lstrip(s) ==
    IF s # <<>> /\ Head(s) \in Whitespace THEN lstrip(Tail(s)) ELSE s

RECURSIVE rstrip(_)
rstrip(s) ==
    IF s # <<>> /\ s[Len(s)] \in Whitespace
    THEN rstrip(SubSeq(s, 1, Len(s) - 1))
    ELSE s

\* str.strip()
strip(s) == rstrip(lstrip(s))

\* str.lower() on the values the recurse/isdir parameters take in the model
lower(v) ==
    CASE v = "TRUE" -> "true"
      [] v = "On"   -> "on"
      [] v = "YES"  -> "yes"
      [] OTHER      -> v

-----------------------------------------------------------------------------
(* _build_powershell_script                                                *)

RECURSIVE _escape_for_single_quoted_powershell(_)
\* value.replace("'", "''")
_escape_for_single_quoted_powershell(value) ==
    IF value = <<>> THEN <<>>
    ELSE (IF Head(value) = "'" THEN <<"'", "'">> ELSE <<Head(value)>>)
         \o _escape_for_single_quoted_powershell(Tail(value))

\* r"C:\\Program Files\\Veritas\\Backup Exec\\Modules\\PowerShell3\\BEMCLI": a raw
\* string, so every separator is two backslash characters
DEFAULT_BEMCLI_MODULE_PATH ==
    <<"C", ":", "\\", "\\", "Program Files", "\\", "\\", "Veritas", "\\", "\\",
      "Backup Exec", "\\", "\\", "Modules", "\\", "\\", "PowerShell3", "\\", "\\",
      "BEMCLI">>

\* source lines of the first and the last element of the list `lines`
FirstScriptLine == 45
LastScriptLine == 162

\* source lines of the elements of `lines` that begin with '#'
CommentLines == {48, 53, 64, 70, 72, 77, 95, 103, 109, 121, 123, 159}

\* source line of the one element that writes to the success stream (stdout):
\* [pscustomobject]@{ diagnostics = $diag; results = @($resultsAll) } | ConvertTo-Json
StdoutLine == 162

\* the value interpolated into an element by an f-string, <<>> where there is none
Interpolated(src, path, agent_server, recurse, path_is_directory) ==
    CASE src = 47 -> _escape_for_single_quoted_powershell(DEFAULT_BEMCLI_MODULE_PATH)
      [] src = 85 -> _escape_for_single_quoted_powershell(path)
      [] src = 86 -> IF Truthy(agent_server)
                     THEN _escape_for_single_quoted_powershell(agent_server.s)
                     ELSE <<>>
      [] src = 91 -> <<IF recurse THEN "true" ELSE "false">>
      [] src = 92 -> <<IF path_is_directory THEN "true" ELSE "false">>
      [] OTHER    -> <<>>

\* the list `lines`: one record per element, in order
lines(path, agent_server, recurse, path_is_directory) ==
    [i \in 1..(LastScriptLine - FirstScriptLine + 1) |->
        LET src == FirstScriptLine + i - 1 IN
        [src     |-> src,
         comment |-> src \in CommentLines,
         arg     |-> Interpolated(src, path, agent_server, recurse, path_is_directory)]]

\* the separator of "; ".join(lines)
Separator == "; "

\* the character that ends a physical line of a text
LineBreak == "\n"

RECURSIVE SplitLines(_)
\* the segments of a token sequence between its line breaks
SplitLines(s) ==
    LET at == {i \in 1..Len(s) : s[i] = LineBreak} IN
    IF at = {} THEN <<s>>
    ELSE LET i == CHOOSE k \in at : \A j \in at : k <= j IN
         <<SubSeq(s, 1, i - 1)>> \o SplitLines(SubSeq(s, i + 1, Len(s)))

\* an element as the pieces it puts on physical lines. An element whose
\* interpolated value holds no line break is one piece ("whole"). Otherwise
\* its text up to the first break ends the current physical line ("head"),
\* every segment between two breaks is a physical line of its own ("line"),
\* and the segment after the last break, followed by the closing quote of the
\* template, begins a new physical line ("tail").
Pieces(e) ==
    LET segs == SplitLines(e.arg)
        n    == Len(segs)
    IN  IF n = 1
        THEN <<[src |-> e.src, comment |-> e.comment, arg |-> e.arg, part |-> "whole"]>>
        ELSE [j \in 1..n |->
                [src     |-> e.src,
                 comment |-> j = 1 /\ e.comment,
                 arg     |-> segs[j],
                 part    |-> IF j = 1 THEN "head" ELSE IF j = n THEN "tail" ELSE "line"]]

RECURSIVE Flatten(_, _, _)
\* the concatenation of seqs[lo], ..., seqs[hi]
Flatten(seqs, lo, hi) ==
    IF lo > hi THEN <<>>
    ELSE IF lo = hi THEN seqs[lo]
    ELSE LET mid == (lo + hi) \div 2 IN
         Flatten(seqs, lo, mid) \o Flatten(seqs, mid + 1, hi)

\* sep.join(elements) as the physical lines of the text: a new physical line
\* begins at every line break, whether the separator or an element holds it
Join(sep, elements) ==
    LET pieces == Flatten([i \in 1..Len(elements) |-> Pieces(elements[i])], 1, Len(elements))
        \* the pieces that begin a physical line
        begins == {k \in 1..Len(pieces) :
                     \/ k = 1
                     \/ pieces[k].part \in {"line", "tail"}
                     \/ sep = LineBreak /\ pieces[k].part \in {"whole", "head"}}
        nth(j) == CHOOSE b \in begins : Cardinality({x \in begins : x <= b}) = j
    IN  [j \in 1..Cardinality(begins) |->
            SubSeq(pieces, nth(j),
                   IF j = Cardinality(begins) THEN Len(pieces) ELSE nth(j + 1) - 1)]

_build_powershell_script(path, agent_server, recurse, path_is_directory) ==
    Join(Separator, lines(path, agent_server, recurse, path_is_directory))

-----------------------------------------------------------------------------
(* powershell.exe -File <script>: which statements of the text are run.    *)
(* A '#' at the start of a token begins a comment that runs to the end of  *)
(* the physical line.                                                      *)

\* position of the first '#' of a segment that begins a token (it is the
\* first character or follows whitespace), 0 when there is none
CommentStart(arg) ==
    LET at == {i \in 1..Len(arg) : arg[i] = "#" /\ (i = 1 \/ arg[i - 1] \in Whitespace)} IN
    IF at = {} THEN 0 ELSE CHOOSE i \in at : \A j \in at : i <= j

\* a piece of request text with a comment in it
HoldsComment(p) == p.part \in {"line", "tail"} /\ CommentStart(p.arg) # 0

\* what one physical line holds before its comment. A whole element, or the
\* head of one, begins a comment if the template text begins with '#' (the
\* interpolated value of such an element is inside quotes). A "line" or
\* "tail" piece is request text outside the quotes of the template: a '#'
\* in it that begins a token begins the comment, and what stands before it
\* is code ("code").
BeforeComment(physical) ==
    LET cs == {i \in 1..Len(physical) :
                 \/ physical[i].part \in {"whole", "head"} /\ physical[i].comment
                 \/ HoldsComment(physical[i])}
    IN  IF cs = {} THEN physical
        ELSE LET i == CHOOSE k \in cs : \A j \in cs : k <= j
                 p == physical[i]
             IN  SubSeq(physical, 1, i - 1)
                 \o (IF HoldsComment(p)
                     THEN <<[p EXCEPT !.arg = SubSeq(p.arg, 1, CommentStart(p.arg) - 1),
                                      !.part = "code"]>>
                     ELSE <<>>)

RECURSIVE Uncommented(_)
\* the pieces of the text outside comments, in order
Uncommented(text) ==
    IF text = <<>> THEN <<>>
    ELSE BeforeComment(Head(text)) \o Uncommented(Tail(text))

\* a piece that is no statement: the head of a split element outside a
\* comment (its quote is never closed on the line), or the tail of one with
\* no comment in it (the closing quote of the template follows it and opens
\* a string, so that from there on the quoted and the unquoted parts of the
\* template are exchanged)
Garbled(p) == p.part \in {"head", "tail"}

\* the statements powershell can run: those before the first garbled piece
ExecutedStatements(pieces) ==
    LET gs == {i \in 1..Len(pieces) : Garbled(pieces[i])} IN
    IF gs = {} THEN pieces
    ELSE SubSeq(pieces, 1, (CHOOSE i \in gs : \A j \in gs : i <= j) - 1)

\* source lines of the elements of `lines` powershell can run as statements
ExecutedLines(text) ==
    LET stmts == ExecutedStatements(Uncommented(text)) IN
    {stmts[i].src : i \in {j \in 1..Len(stmts) : stmts[j].part = "whole"}}

\* request text that powershell reads as code
InjectedCode(text) ==
    SelectSeq(Uncommented(text), LAMBDA p : p.part \in {"line", "code"})

\* garbled pieces of the text
GarbledPieces(text) == SelectSeq(Uncommented(text), Garbled)

\* Write-Output 1
WriteOutputOne == <<"Write-Output", " ", "1">>

\* request code whose effect the model computes: nothing, or Write-Output 1
KnownCode(code) == strip(code) = <<>> \/ strip(code) = WriteOutputOne

\* what such code writes to the success stream
InjectedStdout(code) == IF strip(code) = WriteOutputOne THEN <<"1", "\n">> ELSE <<>>

\* characters that end a bare word or begin something else than one
PsSpecial ==
    Whitespace \cup {"'", "\"", "#", ";", "|", "&", "(", ")", "{", "}", "$", "@",
                     "=", "<", ">", ",", "[", "]"}

\* a segment that is one bare word: with the quoted text that follows it, it
\* is read as the name of a command
BareWord(arg) == arg # <<>> /\ \A i \in 1..Len(arg) : arg[i] \notin PsSpecial

-----------------------------------------------------------------------------
(* JSON: values, json.dumps-like serialisation to tokens, json.loads.      *)
(* A value is [t, items, s]: t is its type, items the elements of a list   *)
(* or the alternating keys and values of an object, s the lexeme of a      *)
(* string, number or literal.                                              *)

JNull == [t |-> "null", items |-> <<>>, s |-> "null"]

JStr(tok) == [t |-> "str", items |-> <<>>, s |-> tok]

JNum(tok) == [t |-> "num", items |-> <<>>, s |-> tok]

JBool(tok) == [t |-> "bool", items |-> <<>>, s |-> tok]

JList(items) == [t |-> "list", items |-> items, s |-> ""]

JDict(items) == [t |-> "dict", items |-> items, s |-> ""]

\* lexemes of JSON string literals (the quotes are part of the lexeme)
StrTokens ==
    {"\"results\"", "\"diagnostics\"", "\"attempts\"", "\"name\"", "\"success\"",
     "\"count\"", "\"Name\"", "\"a\"", "\"b\"", "\"agent_lookup\"",
     "\"all_agents_dir=False\"", "\"\"", "\"error\"", "\"not found\"",
     "\"moduleImport\"", "\"pathsToTry\"", "\"pattern\"", "\"loadedPath\"",
     "\"version\""}

NumTokens == {"0", "1", "2"}

BoolTokens == {"true", "false"}

\* bool(value) in Python
PyTruthy(v) ==
    CASE v.t = "null" -> FALSE
      [] v.t = "bool" -> v.s = "true"
      [] v.t = "num"  -> v.s # "0"
      [] v.t = "str"  -> v.s # "\"\""
      [] OTHER        -> v.items # <<>>

\* key in d
HasKey(d, key) ==
    \E i \in 1..Len(d.items) : i % 2 = 1 /\ d.items[i].s = key

\* d.get(key): None when the key is missing; a repeated key keeps its last value
DictGet(d, key) ==
    LET ks == {i \in 1..Len(d.items) : i % 2 = 1 /\ d.items[i].s = key} IN
    IF ks = {} THEN JNull
    ELSE d.items[(CHOOSE i \in ks : \A j \in ks : j <= i) + 1]

RECURSIVE Dumps(_)
RECURSIVE DumpsItems(_, _, _)
\* the tokens of the JSON text of a value
Dumps(v) ==
    CASE v.t = "list" -> <<"[">> \o DumpsItems(v.items, 1, FALSE) \o <<"]">>
      [] v.t = "dict" -> <<"{">> \o DumpsItems(v.items, 1, TRUE) \o <<"}">>
      [] OTHER        -> <<v.s>>

DumpsItems(items, i, members) ==
    IF i > Len(items) THEN <<>>
    ELSE (IF i = 1 THEN <<>>
          ELSE IF members /\ i % 2 = 0 THEN <<":">> ELSE <<",">>)
         \o Dumps(items[i]) \o DumpsItems(items, i + 1, members)

ParseFail == [ok |-> FALSE, val |-> JNull, next |-> 0]

ParseOk(v, n) == [ok |-> TRUE, val |-> v, next |-> n]

RECURSIVE SkipWs(_, _)
\* index of the first token at or after i that is not white space
SkipWs(toks, i) ==
    IF i <= Len(toks) /\ toks[i] \in Whitespace THEN SkipWs(toks, i + 1) ELSE i

RECURSIVE ParseValue(_, _)
RECURSIVE ParseElements(_, _, _)
RECURSIVE ParseMembers(_, _, _)
\* one JSON value starting at token i0
ParseValue(toks, i0) ==
    LET i == SkipWs(toks, i0) IN
    IF i > Len(toks) THEN ParseFail
    ELSE CASE toks[i] = "[" ->
                LET j == SkipWs(toks, i + 1) IN
                IF j <= Len(toks) /\ toks[j] = "]"
                THEN ParseOk(JList(<<>>), j + 1)
                ELSE ParseElements(toks, i + 1, <<>>)
           [] toks[i] = "{" ->
                LET j == SkipWs(toks, i + 1) IN
                IF j <= Len(toks) /\ toks[j] = "}"
                THEN ParseOk(JDict(<<>>), j + 1)
                ELSE ParseMembers(toks, i + 1, <<>>)
           [] toks[i] \in StrTokens  -> ParseOk(JStr(toks[i]), i + 1)
           [] toks[i] \in NumTokens  -> ParseOk(JNum(toks[i]), i + 1)
           [] toks[i] \in BoolTokens -> ParseOk(JBool(toks[i]), i + 1)
           [] toks[i] = "null"       -> ParseOk(JNull, i + 1)
           [] OTHER                  -> ParseFail

ParseElements(toks, i, acc) ==
    LET r == ParseValue(toks, i) IN
    IF ~r.ok THEN ParseFail
    ELSE LET j == SkipWs(toks, r.next) IN
         IF j > Len(toks) THEN ParseFail
         ELSE IF toks[j] = "," THEN ParseElements(toks, j + 1, Append(acc, r.val))
         ELSE IF toks[j] = "]" THEN ParseOk(JList(Append(acc, r.val)), j + 1)
         ELSE ParseFail

ParseMembers(toks, i, acc) ==
    LET k == SkipWs(toks, i) IN
    IF k > Len(toks) \/ toks[k] \notin StrTokens THEN ParseFail
    ELSE LET c == SkipWs(toks, k + 1) IN
         IF c > Len(toks) \/ toks[c] # ":" THEN ParseFail
         ELSE LET r == ParseValue(toks, c + 1) IN
              IF ~r.ok THEN ParseFail
              ELSE LET j == SkipWs(toks, r.next)
                       acc2 == acc \o <<JStr(toks[k]), r.val>> IN
                   IF j > Len(toks) THEN ParseFail
                   ELSE IF toks[j] = "," THEN ParseMembers(toks, j + 1, acc2)
                   ELSE IF toks[j] = "}" THEN ParseOk(JDict(acc2), j + 1)
                   ELSE ParseFail

\* json.loads(text): one value, white space around it, nothing else;
\* ok = FALSE stands for json.JSONDecodeError
json_loads(toks) ==
    LET r == ParseValue(toks, 1) IN
    IF r.ok /\ SkipWs(toks, r.next) = Len(toks) + 1 THEN r ELSE ParseFail

-----------------------------------------------------------------------------
(* search_catalog, after _run_powershell has returned                      *)

NoPs == [binary |-> "", exit_code |-> 0, stderr |-> <<>>, has_script |-> FALSE, script |-> <<>>]

\* result.get("diagnostics") when the dict has no such key
NoDiagnostics == [present |-> FALSE, ps |-> NoPs, raw_stdout |-> None, doc |-> JNull]

\* the diagnostics of the two failure returns: ps with the script, and raw_stdout
FailureDiagnostics(used_bin, code, err, script, out) ==
    [present    |-> TRUE,
     ps         |-> [binary |-> used_bin, exit_code |-> code, stderr |-> err,
                     has_script |-> TRUE, script |-> script],
     raw_stdout |-> Some(out),
     doc        |-> JNull]

\* f"PowerShell exited with code {code}"
ExitCodeMessage(code) ==
    <<"PowerShell", " ", "exited", " ", "with", " ", "code", " ", ToString(code)>>

\* str.find(ch): 0-based index of the first occurrence, -1 when there is none
find(text, ch) ==
    LET at == {i \in 1..Len(text) : text[i] = ch} IN
    IF at = {} THEN -1 ELSE (CHOOSE i \in at : \A j \in at : i <= j) - 1

FirstBraceOnly(stdout) == find(stdout, "{")

\* min((i for i in [stdout.find("["), stdout.find("{")] if i != -1), default=-1)
first_bracket(stdout) ==
    LET found == {i \in {find(stdout, "["), find(stdout, "{")} : i # -1} IN
    IF found = {} THEN -1 ELSE CHOOSE i \in found : \A j \in found : i <= j

Raised(exception) ==
    [raised |-> TRUE, exception |-> exception, success |-> FALSE, results |-> <<>>,
     error |-> None, diagnostics |-> NoDiagnostics]

Returned(success, results, error, diagnostics) ==
    [raised |-> FALSE, exception |-> "none", success |-> success, results |-> results,
     error |-> error, diagnostics |-> diagnostics]

\* lines 272-292 as they would read if a failed attempt failed the search
FromParsedAttemptsDecide(parsed, used_bin, code, err) ==
    LET wrapped         == parsed.t = "dict" /\ HasKey(parsed, "\"results\"")
        results_payload == IF wrapped THEN DictGet(parsed, "\"results\"") ELSE parsed
        got             == IF wrapped THEN DictGet(parsed, "\"diagnostics\"") ELSE JNull
        diagnostics     == IF PyTruthy(got) THEN got ELSE JDict(<<>>)
        results_list    == IF results_payload.t = "list" THEN results_payload.items
                           ELSE IF results_payload.t = "null" THEN <<>>
                           ELSE <<results_payload>>
        logged          == LET a == DictGet(diagnostics, "\"attempts\"") IN
                           IF a.t = "list" THEN a.items ELSE <<>>
        failed          == \E i \in 1..Len(logged) :
                               /\ logged[i].t = "dict"
                               /\ DictGet(logged[i], "\"success\"") = JBool("false")
    IN  IF diagnostics.t # "dict"
        THEN Raised("TypeError")
        ELSE Returned(~failed, results_list,
                      IF failed THEN Some(<<"attempt failed">>) ELSE None,
                      [present    |-> TRUE,
                       ps         |-> [binary |-> used_bin, exit_code |-> code,
                                       stderr |-> err, has_script |-> FALSE,
                                       script |-> <<>>],
                       raw_stdout |-> None,
                       doc        |-> diagnostics])

\* lines 272-292: from the parsed document to the returned dict
FromParsed(parsed, used_bin, code, err) ==
    LET wrapped         == parsed.t = "dict" /\ HasKey(parsed, "\"results\"")
        results_payload == IF wrapped THEN DictGet(parsed, "\"results\"") ELSE parsed
        got             == IF wrapped THEN DictGet(parsed, "\"diagnostics\"") ELSE JNull
        diagnostics     == IF PyTruthy(got) THEN got ELSE JDict(<<>>)
        results_list    == IF results_payload.t = "list" THEN results_payload.items
                           ELSE IF results_payload.t = "null" THEN <<>>
                           ELSE <<results_payload>>
    IN  IF diagnostics.t # "dict"
        THEN Raised("TypeError")   \* diagnostics["ps"] = ... on a list, str, number or bool
        ELSE Returned(TRUE, results_list, None,
                      [present    |-> TRUE,
                       ps         |-> [binary |-> used_bin, exit_code |-> code,
                                       stderr |-> err, has_script |-> FALSE,
                                       script |-> <<>>],
                       raw_stdout |-> None,
                       doc        |-> diagnostics])

StripNothing(text) == text

\* stdout = out.strip()
StripStdout(out) == strip(out)

search_catalog(code, out, err, used_bin, script) ==
    IF code # 0
    THEN Returned(FALSE, <<>>,
                  Some(IF strip(err) # <<>> THEN strip(err) ELSE ExitCodeMessage(code)),
                  FailureDiagnostics(used_bin, code, err, script, out))
    ELSE LET stdout == StripStdout(out) IN
         IF stdout = <<>>
         THEN Returned(TRUE, <<>>, None, NoDiagnostics)
         ELSE LET whole == json_loads(stdout) IN
              IF whole.ok THEN FromParsed(whole.val, used_bin, code, err)
              ELSE LET fb == first_bracket(stdout) IN
                   IF fb # -1
                   THEN LET rest == json_loads(SubSeq(stdout, fb + 1, Len(stdout))) IN
                        IF rest.ok THEN FromParsed(rest.val, used_bin, code, err)
                        ELSE Returned(FALSE, <<>>,
                                      Some(<<"Failed to parse JSON from PowerShell output.">>),
                                      FailureDiagnostics(used_bin, code, err, script, out))
                   ELSE Returned(FALSE, <<>>,
                                 Some(<<"No JSON output from PowerShell.">>),
                                 FailureDiagnostics(used_bin, code, err, script, out))

-----------------------------------------------------------------------------
(* http_search                                                             *)

\* a query parameter that is absent
NoParam == [some |-> FALSE, s |-> ""]

Param(v) == [some |-> TRUE, s |-> v]

\* request.args.get(name, default="false").lower() in ("1", "true", "yes", "on")
Flag(p) == lower(IF p.some THEN p.s ELSE "false") \in {"1", "true", "yes", "on"}

PathIsNone(query_path) == ~query_path.some

\* `not query_path`: the parameter is absent or empty
PathMissing(query_path) == ~Truthy(query_path)

NoResponse ==
    [status |-> 0, kind |-> "none", success |-> FALSE, count |-> 0, results |-> <<>>,
     error |-> None, diagnostics |-> NoDiagnostics, message |-> ""]

\* jsonify({"error": "Missing required query parameter 'path'"}), 400
BadRequest ==
    [NoResponse EXCEPT !.status = 400, !.kind = "error",
                       !.message = "Missing required query parameter 'path'"]

\* what Flask answers when the view raises: 500 with its own error page
InternalServerError ==
    [NoResponse EXCEPT !.status = 500, !.kind = "html",
                       !.message = "Internal Server Error"]

\* 200 if result.get("success") else 500
StatusCode(r) == IF r.success THEN 200 ELSE 500

\* jsonify(payload), status_code
Payload(r) ==
    [status      |-> StatusCode(r),
     kind        |-> "payload",
     success     |-> r.success,
     count       |-> Len(r.results),
     results     |-> r.results,
     error       |-> r.error,
     diagnostics |-> r.diagnostics,
     message     |-> ""]

-----------------------------------------------------------------------------
(* Requests                                                                *)

\* C:\Data\Projects\*
PathProjects ==
    <<"C", ":", "\\", "D", "a", "t", "a", "\\", "P", "r", "o", "j", "e", "c", "t", "s", "\\", "*">>

\* a path with a line break in it: a%0Ab
PathTwoLines == <<"a", LineBreak, "b">>

\* a path whose second line is a statement and a '#': x%0AWrite-Output 1 %23
PathInjected == <<"x", LineBreak, "Write-Output", " ", "1", " ", "#">>

PathSamples ==
    {<<>>, PathProjects, <<"D", "a", "t", "a">>, <<"C", ":", "\\", "D">>,
     <<"\\", "\\", "s", "\\", "d">>, <<"i", "t", "'", "s">>, <<" ">>,
     PathTwoLines, PathInjected}

AgentSamples ==
    {None, Some(<<>>), Some(<<"s", "r", "v">>), Some(<<"o", "'", "b">>),
     Some(<<"s", LineBreak, "v">>)}

Requests ==
    [path    : {None} \cup {Some(p) : p \in PathSamples},
     agent   : AgentSamples,
     recurse : {NoParam, Param("TRUE")},
     isdir   : {NoParam, Param("On"), Param("0")}]

StubRequests ==
    [path    : {None, Some(PathProjects)},
     agent   : {None, Some(<<"s", "r", "v">>)},
     recurse : {NoParam},
     isdir   : {NoParam}]

NoArgs == [path |-> <<>>, agent_server |-> None, recurse |-> FALSE, path_is_directory |-> FALSE]

NoProc == [binary |-> "", code |-> 0, out |-> <<>>, err |-> <<>>]

NoResult == Returned(FALSE, <<>>, None, NoDiagnostics)

-----------------------------------------------------------------------------
(* Documents a process may print                                           *)

Entry(name) == JDict(<<JStr("\"Name\""), JStr(name)>>)

Entries == {Entry("\"a\""), Entry("\"b\"")}

ResultLists == UNION {[1..n -> Entries] : n \in 0..MaxEntries}

\* the record Add-Attempt builds, and the agent_lookup record
AttemptOk ==
    JDict(<<JStr("\"name\""), JStr("\"all_agents_dir=False\""),
            JStr("\"success\""), JBool("true"), JStr("\"count\""), JNum("1")>>)

AttemptFailed ==
    JDict(<<JStr("\"name\""), JStr("\"agent_lookup\""), JStr("\"success\""), JBool("false")>>)

\* the record Add-Attempt builds when the search threw (lines 137, 142)
AttemptSearchFailed ==
    JDict(<<JStr("\"name\""), JStr("\"all_agents_dir=False\""),
            JStr("\"pattern\""), JStr("\"a\""),
            JStr("\"success\""), JBool("false"), JStr("\"count\""), JNum("0"),
            JStr("\"error\""), JStr("\"not found\"")>>)

AttemptLogs ==
    {<<>>, <<AttemptFailed>>, <<AttemptFailed, AttemptOk>>, <<AttemptFailed, AttemptSearchFailed>>}

\* $diag.moduleImport when no import loaded the module (lines 81-83; the
\* host-dependent fields of lines 54 and 84 are left out)
ModuleImportFailed ==
    JDict(<<JStr("\"success\""), JBool("false"), JStr("\"loadedPath\""), JNull,
            JStr("\"version\""), JNull>>)

DiagnosticsObjects ==
    {JDict(<<JStr("\"attempts\""), JList(a)>>) : a \in AttemptLogs}
    \cup {JDict(<<JStr("\"moduleImport\""), ModuleImportFailed,
                  JStr("\"attempts\""), JList(<<AttemptSearchFailed>>)>>)}

\* { "diagnostics": {...}, "results": [...] }, the document of line 162
ScriptDocuments ==
    {JDict(<<JStr("\"diagnostics\""), d, JStr("\"results\""), JList(r)>>) :
        d \in DiagnosticsObjects, r \in ResultLists}

ListDocuments == {JList(r) : r \in ResultLists}

\* documents json.loads accepts that are not of the shape the script prints
OtherDocuments ==
    {JDict(<<JStr("\"results\""), JList(r)>>) : r \in ResultLists}
    \cup {JDict(<<JStr("\"diagnostics\""), d, JStr("\"results\""), JList(<<Entry("\"a\"")>>)>>) :
            d \in {JNull, JList(<<>>), JList(<<JNum("1")>>), JStr("\"a\""), JNum("1")}}
    \cup {JDict(<<JStr("\"results\""), JNull>>),
          JDict(<<JStr("\"results\""), Entry("\"a\"")>>),
          Entry("\"a\""), JNum("1"), JNull}

Documents == ScriptDocuments \cup ListDocuments \cup OtherDocuments

\* text that is no JSON document
BrokenBodies == {<<>>, <<"[", "g", "]">>, <<"{", "\"results\"">>}

PreambleTokens == {"g", " ", "[", "{"}

Preambles == UNION {[1..n -> PreambleTokens] : n \in 0..MaxPreamble}

Trailers == {<<>>, <<"\n">>, <<"g">>}

StdoutSamples ==
    {pre \o body \o post :
        pre \in Preambles,
        body \in BrokenBodies \cup {Dumps(d) : d \in Documents},
        post \in Trailers}

StderrSamples ==
    {<<>>, <<" ", "\n">>, <<"module", " ", "not", " ", "found">>, <<" ", "boom", "\n">>}

-----------------------------------------------------------------------------
(* What a run of powershell.exe -File <script> returns                     *)

\* what a stub of _run_powershell may return
StubOutcomes ==
    {[code |-> 0, out |-> o, err |-> e] :
        o \in StdoutSamples, e \in {<<>>, <<"warn", "\n">>}}
    \cup {[code |-> c, out |-> o, err |-> e] :
            c \in 1..MaxExitCode, o \in {<<>>, <<"[", "]">>}, e \in StderrSamples}

RECURSIVE Outputs(_)
\* what a sequence of statements writes to the success stream: the document
\* of line 162 if that statement is among them, and what request code
\* writes (no other statement of `lines` writes to the success stream)
Outputs(stmts) ==
    IF stmts = <<>> THEN {<<>>}
    ELSE LET h     == Head(stmts)
             first == IF h.part = "whole"
                      THEN IF h.src = StdoutLine
                           THEN {Dumps(d) : d \in ScriptDocuments}
                           ELSE {<<>>}
                      ELSE {InjectedStdout(h.arg)}
         IN  {a \o b : a \in first, b \in Outputs(Tail(stmts))}

\* stdout of the statements powershell can run
ScriptStdout(text) == Outputs(ExecutedStatements(Uncommented(text)))

\* what powershell reports for a text it cannot read, and for a command it
\* cannot find
ParserError == <<"ParserError">>

CommandNotFound == <<"CommandNotFoundException">>

\* what a run of the script returns.
\*  - Every piece outside comments is a statement: the script runs to its
\*    end and exits 0.
\*  - The first garbled piece is a bare word: the text is either refused as
\*    a whole (parse error, nothing runs) or runs up to the unknown command
\*    and stops there ($ErrorActionPreference = 'Stop', line 45); powershell
\*    exits 1 both ways.
\*  - Request code the model does not compute, or another garbled piece
\*    first: any outcome.
ScriptRuns(text) ==
    LET injected == InjectedCode(text)
        garbled  == GarbledPieces(text)
    IN  IF \E i \in 1..Len(injected) : ~KnownCode(injected[i].arg)
        THEN StubOutcomes
        ELSE IF garbled = <<>>
        THEN {[code |-> 0, out |-> o, err |-> <<>>] : o \in ScriptStdout(text)}
        ELSE IF garbled[1].part = "tail" /\ BareWord(garbled[1].arg)
        THEN {[code |-> 1, out |-> <<>>, err |-> ParserError]}
             \cup {[code |-> 1, out |-> o, err |-> CommandNotFound] : o \in ScriptStdout(text)}
        ELSE StubOutcomes

\* the host ended non-zero (script file refused or unreadable, host crash)
HostFailures ==
    {[code |-> c, out |-> <<>>, err |-> e] : c \in 1..MaxExitCode, e \in StderrSamples}

-----------------------------------------------------------------------------
(* Actions                                                                 *)

InitWith(requests) ==
    /\ req \in requests
    /\ pc = "http_search"
    /\ args = NoArgs
    /\ ps_script = <<>>
    /\ proc = NoProc
    /\ exc = "none"
    /\ result = NoResult
    /\ resp = NoResponse
    /\ builds = 0
    /\ runs = 0
    /\ spawns = 0

Init == InitWith(Requests)

InitStub == InitWith(StubRequests)

\* lines 303-305: no path, 400
http_search_reject ==
    /\ pc = "http_search"
    /\ PathMissing(req.path)
    /\ resp' = BadRequest
    /\ pc' = "done"
    /\ UNCHANGED <<req, args, ps_script, proc, exc, result, builds, runs, spawns>>

\* lines 307-316: read the other parameters and call search_catalog
http_search_call ==
    /\ pc = "http_search"
    /\ ~PathMissing(req.path)
    /\ args' = [path              |-> req.path.s,
                agent_server      |-> req.agent,
                recurse           |-> Flag(req.recurse),
                path_is_directory |-> Flag(req.isdir)]
    /\ pc' = "search_catalog"
    /\ UNCHANGED <<req, ps_script, proc, exc, result, resp, builds, runs, spawns>>

\* lines 219-224
search_catalog_build ==
    /\ pc = "search_catalog"
    /\ ps_script' = _build_powershell_script(args.path, args.agent_server,
                                            args.recurse, args.path_is_directory)
    /\ builds' = builds + 1
    /\ pc' = "run_powershell"
    /\ UNCHANGED <<req, args, proc, exc, result, resp, runs, spawns>>

\* subprocess.run returned: (returncode, stdout, stderr, used_binary)
ProcessExits(binary, outcomes) ==
    /\ \E o \in outcomes :
          proc' = [binary |-> binary, code |-> o.code, out |-> o.out, err |-> o.err]
    /\ spawns' = spawns + 1
    /\ pc' = "returned"
    /\ UNCHANGED exc

\* subprocess.run raised TimeoutExpired, which _run_powershell does not catch
ProcessTimesOut ==
    /\ spawns' = spawns + 1
    /\ exc' = "TimeoutExpired"
    /\ pc' = "raised"
    /\ UNCHANGED proc

\* lines 225, 168-191: _run_powershell is called and tries powershell.exe
run_powershell ==
    /\ pc = "run_powershell"
    /\ runs' = runs + 1
    /\ \/ ProcessExits("powershell.exe", ScriptRuns(ps_script) \cup HostFailures)
       \/ ProcessTimesOut
       \/ /\ pc' = "run_pwsh"          \* FileNotFoundError: fall back to pwsh
          /\ UNCHANGED <<proc, exc, spawns>>
    /\ UNCHANGED <<req, args, ps_script, result, resp, builds>>

\* lines 192-201: the fallback binary
run_pwsh ==
    /\ pc = "run_pwsh"
    /\ \/ ProcessExits("pwsh", ScriptRuns(ps_script) \cup HostFailures)
       \/ ProcessTimesOut
       \/ /\ exc' = "FileNotFoundError"   \* raised inside the except clause
          /\ pc' = "raised"
          /\ UNCHANGED <<proc, spawns>>
    /\ UNCHANGED <<req, args, ps_script, result, resp, builds, runs>>

\* _run_powershell replaced by a stub: it returns a tuple, no process starts
stub_run ==
    /\ pc = "run_powershell"
    /\ runs' = runs + 1
    /\ \E o \in StubOutcomes :
          proc' = [binary |-> "powershell.exe", code |-> o.code, out |-> o.out, err |-> o.err]
    /\ pc' = "returned"
    /\ UNCHANGED <<req, args, ps_script, exc, result, resp, builds, spawns>>

\* lines 227-292
search_catalog_return ==
    /\ pc = "returned"
    /\ LET r == search_catalog(proc.code, proc.out, proc.err, proc.binary, ps_script) IN
       \/ /\ ~r.raised
          /\ result' = r
          /\ pc' = "respond"
          /\ UNCHANGED exc
       \/ /\ r.raised
          /\ exc' = r.exception
          /\ pc' = "raised"
          /\ UNCHANGED result
    /\ UNCHANGED <<req, args, ps_script, proc, resp, builds, runs, spawns>>

\* lines 317-325
http_search_respond ==
    /\ pc = "respond"
    /\ resp' = Payload(result)
    /\ pc' = "done"
    /\ UNCHANGED <<req, args, ps_script, proc, exc, result, builds, runs, spawns>>

\* an exception leaves http_search: Flask answers 500
flask_error ==
    /\ pc = "raised"
    /\ resp' = InternalServerError
    /\ pc' = "done"
    /\ UNCHANGED <<req, args, ps_script, proc, exc, result, builds, runs, spawns>>

Next ==
    \/ http_search_reject
    \/ http_search_call
    \/ search_catalog_build
    \/ run_powershell
    \/ run_pwsh
    \/ search_catalog_return
    \/ http_search_respond
    \/ flask_error

Spec == Init /\ [][Next]_vars

NextStub ==
    \/ http_search_reject
    \/ http_search_call
    \/ search_catalog_build
    \/ stub_run
    \/ search_catalog_return
    \/ http_search_respond
    \/ flask_error

SpecStub == InitStub /\ [][NextStub]_vars

-----------------------------------------------------------------------------
(* Properties                                                              *)

\* the request was answered after one call of _run_powershell
Answered == pc = "done" /\ runs = 1

\* the external process ran and exited with code 0
ExitedZero == Answered /\ exc \notin {"FileNotFoundError", "TimeoutExpired"} /\ proc.code = 0

\* an agent name was given (a non-empty 'agent' parameter)
AgentRequested == Truthy(req.agent)

\* a field of the diagnostics object of the response, null when there is none
DiagnosticsField(key) ==
    IF resp.kind = "payload" /\ resp.diagnostics.present
    THEN DictGet(resp.diagnostics.doc, key)
    ELSE JNull

ListItems(v) == IF v.t = "list" THEN v.items ELSE <<>>

\* diagnostics.attempts and diagnostics.pathsToTry as the response reports them
ReportedAttempts == ListItems(DiagnosticsField("\"attempts\""))

ReportedVariants == ListItems(DiagnosticsField("\"pathsToTry\""))

\* the directory-mode toggles of a request: the requested value, then true
\* if the requested value was false
DirToggles == IF Flag(req.isdir) THEN <<TRUE>> ELSE <<FALSE, TRUE>>

\* the stripped output is one JSON document
ParseableJson(out) == json_loads(strip(out)).ok

\* position of the first '[' or '{' of a text, 0 when it has none
FirstBracketAt(text) ==
    LET at == {i \in 1..Len(text) : text[i] \in {"[", "{"}} IN
    IF at = {} THEN 0 ELSE CHOOSE i \in at : \A j \in at : i <= j

\* the output is not empty, is no JSON document, and neither is its part
\* from the first '[' or '{' on
Unparseable(out) ==
    LET text == strip(out) IN
    /\ text # <<>>
    /\ ~json_loads(text).ok
    /\ \/ FirstBracketAt(text) = 0
       \/ ~json_loads(SubSeq(text, FirstBracketAt(text), Len(text))).ok

\* C1: at the end of a run the attempts log in diagnostics holds exactly
\* (variants x toggles) x (1 if no agent was requested, else 2) records, and
\* there is at least one variant.
C1_AttemptsLogCount ==
    (ExitedZero /\ resp.kind = "payload")
        => /\ Len(ReportedVariants) >= 1
           /\ Len(ReportedAttempts)
                = Len(ReportedVariants) * Len(DirToggles) * (IF AgentRequested THEN 2 ELSE 1)

\* the value of a number lexeme
C2_NumValue(tok) ==
    CASE tok = "1" -> 1
      [] tok = "2" -> 2
      [] OTHER     -> 0

RECURSIVE C2_MatchCount(_)
\* the sum of the match counts of the attempt records with success=true
C2_MatchCount(attempts) ==
    IF attempts = <<>> THEN 0
    ELSE LET a == Head(attempts) IN
         (IF a.t = "dict" /\ DictGet(a, "\"success\"") = JBool("true")
          THEN C2_NumValue(DictGet(a, "\"count\"").s)
          ELSE 0)
         + C2_MatchCount(Tail(attempts))

\* C2: when the external invocation succeeded, the number of entries of the
\* response (its count, which is the length of its results) equals the sum of
\* the match counts of the attempt records in diagnostics.attempts that have
\* success=true.
C2_CountIsSumOfMatchCounts ==
    (ExitedZero /\ resp.kind = "payload")
        => /\ resp.count = Len(resp.results)
           /\ resp.count = C2_MatchCount(ReportedAttempts)

\* of the statements of `lines`, powershell runs none after line 47, whatever
\* the request
OnlyFirstStatementsRun ==
    ps_script # <<>> => ExecutedLines(ps_script) \subseteq FirstScriptLine..47

\* the document on stdout, when the stripped output is one JSON document
C3_Document == json_loads(strip(proc.out)).val

\* the "diagnostics" member of a document, null when it has none
C3_DiagnosticsMember(doc) ==
    IF doc.t = "dict" /\ HasKey(doc, "\"diagnostics\"")
    THEN DictGet(doc, "\"diagnostics\"")
    ELSE JNull

\* the attempt records a document carries next to its results
C3_PrintedAttempts(doc) ==
    IF doc.t = "dict" /\ HasKey(doc, "\"results\"")
    THEN ListItems(DictGet(C3_DiagnosticsMember(doc), "\"attempts\""))
    ELSE <<>>

\* an attempt record that reports a failure
C3_AttemptFailed(a) == a.t = "dict" /\ DictGet(a, "\"success\"") = JBool("false")

\* C3: when the process exits with code 0 and prints parseable JSON whose
\* diagnostics, if it has any, is an object (the shape the script prints),
\* the request is answered 200 with success=true and a null error, whatever
\* the attempt records and the module import say; the attempt records are
\* reported unchanged in diagnostics.attempts.
C3_ParseableOutputIsSuccess ==
    (/\ ExitedZero
     /\ ParseableJson(proc.out)
     /\ C3_DiagnosticsMember(C3_Document).t \in {"dict", "null"})
        => /\ resp.status = 200
           /\ resp.kind = "payload"
           /\ resp.success
           /\ resp.error = None
           /\ ReportedAttempts = C3_PrintedAttempts(C3_Document)

\* every attempt of the printed document failed and the module import failed
\* too, and the request was answered 200 with success=true
C3_Witness ==
    /\ ExitedZero
    /\ ParseableJson(proc.out)
    /\ ReportedAttempts # <<>>
    /\ \A i \in 1..Len(ReportedAttempts) : C3_AttemptFailed(ReportedAttempts[i])
    /\ DictGet(DiagnosticsField("\"moduleImport\""), "\"success\"") = JBool("false")
    /\ resp.status = 200
    /\ resp.success
    /\ resp.error = None

\* the invocation failed: the process could not be started, timed out, or
\* exited non-zero
InvocationFailed ==
    /\ Answered
    /\ \/ exc \in {"FileNotFoundError", "TimeoutExpired"}
       \/ exc = "none" /\ proc.code # 0

\* C4: every invocation failure is answered 500 with the standard payload:
\* success=false, count 0, no results, the error text, and diagnostics with
\* the exit code, stderr and script.
C4_InvocationFailurePayload ==
    InvocationFailed
        => /\ resp.status = 500
           /\ resp.kind = "payload"
           /\ ~resp.success
           /\ resp.count = 0
           /\ resp.results = <<>>
           /\ resp.error.some
           /\ resp.diagnostics.present
           /\ resp.diagnostics.ps.has_script

\* C5 as stated: exit code 0 with empty, blank or unparseable stdout is a
\* failure (success=false, an error, HTTP 500).
C5_EmptyOrUnparseableIsFailure ==
    (ExitedZero /\ (strip(proc.out) = <<>> \/ Unparseable(proc.out)))
        => /\ resp.status = 500
           /\ ~resp.success
           /\ resp.error.some

\* C5 as amended: exit code 0 with empty or blank stdout is answered 200 with
\* success=true, no results, a null error and no diagnostics; exit code 0
\* with stdout that is not empty and cannot be parsed is answered 500 with
\* success=false, no results and an error.
C5_EmptyIsSuccessUnparseableIsFailure ==
    ExitedZero
        => /\ strip(proc.out) = <<>>
                => /\ resp.status = 200
                   /\ resp.kind = "payload"
                   /\ resp.success
                   /\ resp.count = 0
                   /\ resp.results = <<>>
                   /\ resp.error = None
                   /\ ~resp.diagnostics.present
           /\ Unparseable(proc.out)
                => /\ resp.status = 500
                   /\ resp.kind = "payload"
                   /\ ~resp.success
                   /\ resp.results = <<>>
                   /\ resp.error.some

\* blank (white space only) stdout with exit code 0 was answered 200
C5_Witness ==
    /\ ExitedZero
    /\ proc.out # <<>>
    /\ strip(proc.out) = <<>>
    /\ resp.status = 200

\* C6: a request without a path, or with an empty one, is answered 400 with
\* the error message and never builds or runs a script; every other request
\* builds one script and calls the external capability exactly once, starting
\* at most one process.
C6_MissingPathIs400 ==
    /\ ~Truthy(req.path)
          => /\ builds = 0 /\ runs = 0 /\ spawns = 0
             /\ pc = "done"
                   => /\ resp.status = 400
                      /\ resp.kind = "error"
                      /\ resp.message = "Missing required query parameter 'path'"
    /\ Truthy(req.path)
          => /\ builds <= 1 /\ runs <= 1 /\ spawns <= 1
             /\ pc = "done" => (builds = 1 /\ runs = 1 /\ resp.status \in {200, 500})

\* a request whose path parameter is present but empty was answered 400
C6_Witness ==
    /\ pc = "done"
    /\ req.path = Some(<<>>)
    /\ resp.status = 400
    /\ runs = 0

\* JSON lexemes of the variants C7 names for C:\Data\Projects\*
VariantRaw == "\"C:\\\\Data\\\\Projects\\\\*\""
VariantDriveStripped == "\"Data\\\\Projects\\\\*\""
VariantLeaf == "\"Projects*\""

Reported(lexeme) == \E i \in 1..Len(ReportedVariants) : ReportedVariants[i].s = lexeme

\* C7: for path C:\Data\Projects\* with no agent and isdir left out, the
\* reported variants include the raw path, Data\Projects\* and Projects*, and
\* two directory-mode toggles are attempted for each variant.
C7_ProjectsVariants ==
    (/\ ExitedZero
     /\ resp.kind = "payload"
     /\ req.path = Some(PathProjects)
     /\ ~AgentRequested
     /\ req.isdir = NoParam)
        => /\ Reported(VariantRaw)
           /\ Reported(VariantDriveStripped)
           /\ Reported(VariantLeaf)
           /\ Len(ReportedAttempts) = 2 * Len(ReportedVariants)

\* C8: the reported variant list is never empty, holds no blank entry and no
\* entry twice.
C8_VariantsDistinctNonBlank ==
    (ExitedZero /\ resp.kind = "payload")
        => /\ ReportedVariants # <<>>
           /\ \A i \in 1..Len(ReportedVariants) :
                 ReportedVariants[i].s \notin {"\"\"", "\" \""}
           /\ \A i, j \in 1..Len(ReportedVariants) :
                 ReportedVariants[i] = ReportedVariants[j] => i = j

\* the documents C9 speaks of: a list of entries, or an object with results
\* (and diagnostics)
C9_Documents ==
    ListDocuments \cup ScriptDocuments
    \cup {JDict(<<JStr("\"results\""), JList(r)>>) : r \in ResultLists}

\* the entries of such a document
C9_EntriesOf(d) == IF d.t = "list" THEN d.items ELSE DictGet(d, "\"results\"").items

\* every non-empty preamble followed by one document: the preamble, the
\* text, and the entries of the document
C9_Cases ==
    {[pre |-> pre, text |-> pre \o Dumps(d), entries |-> C9_EntriesOf(d)] :
        pre \in Preambles \ {<<>>}, d \in C9_Documents}

HasBracket(text) == \E i \in 1..Len(text) : text[i] \in {"[", "{"}

C9_BracketFreeCases == {c \in C9_Cases : ~HasBracket(c.pre)}

\* for each of the given cases, the response to that output is a success
\* with exactly the entries of the document
C9_Tolerates(cases) ==
    ExitedZero
        => \A c \in cases :
              proc.out \in {c.text, c.text \o <<"\n">>}
                 => /\ resp.status = 200
                    /\ resp.kind = "payload"
                    /\ resp.success
                    /\ resp.results = c.entries
                    /\ resp.count = Len(c.entries)

\* C9 as stated: any non-JSON preamble before one valid document is skipped.
C9_AnyPreambleIsSkipped ==
    C9_Tolerates(C9_Cases)

\* C9 as amended: a preamble that holds no '[' and no '{' is skipped: the
\* document is parsed from the first '[' or '{' of the output and the
\* response is a success with exactly its entries.
C9_BracketFreePreambleIsSkipped ==
    C9_Tolerates(C9_BracketFreeCases)

\* stdout garbage{"results":[{"Name":"a"}]} gave one entry whose Name is a
C9_Witness ==
    /\ ExitedZero
    /\ proc.out = <<"g">> \o Dumps(JDict(<<JStr("\"results\""), JList(<<Entry("\"a\"")>>)>>))
    /\ resp.success
    /\ resp.count = 1
    /\ DictGet(resp.results[1], "\"Name\"").s = "\"a\""

====
